---- MODULE Spec2Model ----
(***************************************************************************)
(* Travel Content Generator (streamlit_app.py): a Streamlit form that      *)
(* builds a JSON payload from the widgets, POSTs it to one of four         *)
(* endpoints and keeps the last payload and the last generated text in     *)
(* st.session_state for the feedback / regenerate loop.                    *)
(*                                                                         *)
(* Every user interaction reruns the script.  A change of a widget is a    *)
(* rerun in which no button is pressed; a click on a button is a rerun in  *)
(* which that button's handler runs to its end (the script is synchronous).*)
(***************************************************************************)
EXTENDS Integers, Sequences, FiniteSets, TLC

VARIABLES
    api_key,            \* st.text_input "Enter your API key:"
    selected_model,     \* st.selectbox "Select Model"
    selected_endpoint,  \* st.selectbox "Select Content Type"
    session_state,      \* st.session_state: form_values, content_generated, generated_content
    run,                \* what the last script run did (button, message, requests, response)
    gen_endpoint,       \* history: endpoint path of the Generate that set content_generated
    last_ok             \* history: the last response a handler accepted as a success

vars == <<api_key, selected_model, selected_endpoint, session_state, run,
          gen_endpoint, last_ok>>

\* The widgets both handlers read.  The widgets only Generate reads (prompt,
\* destination, dates, optional client information) and the feedback text
\* area only Regenerate reads are inputs of the click that reads them.
widgets == <<api_key, selected_model, selected_endpoint>>

\* Python's None, kept apart from every string the program handles.
None == "<None>"

\* Truthiness of a str-or-None value: `if x:` / `not x`.
Truthy(v) == v # None /\ v # ""

-----------------------------------------------------------------------------
(* Module-level tables *)

ENDPOINTS ==
    "Generate Hotel Description"    :> "/generate-hotel-reservation" @@
    "Generate Master Itinerary"     :> "/generate-master-itinerary" @@
    "Generate Extra Daily Contents" :> "/generate-extra-daily-contents" @@
    "Generate Free Format Content"  :> "/generate-free-format-content"

MODELS ==
    "Claude 3.5 Sonnet v2" :> None @@
    "LLama 3.0 70b"        :> "us.meta.llama3-3-70b-instruct-v1:0"

FreeFormat == "Generate Free Format Content"

base_url == "https://m0zpgns4ce.execute-api.us-east-1.amazonaws.com/stg-public"

-----------------------------------------------------------------------------
(* Values the user can enter *)

ApiKeys      == {"", "secret-key"}
Prompts      == {"", "Write a haiku"}
Destinations == {"", "Paris"}
Feedbacks    == {"", "make it shorter"}

\* st.date_input always holds a date (it defaults to today).
StartDates == {[year |-> 2025, month |-> 6, day |-> 1]}
EndDates   == {[year |-> 2025, month |-> 6, day |-> 10]}

\* Values of the widgets in the "Optional Client Information" expander.
\* The number inputs have min_value=0, so they are never negative.  The text
\* of "Places Visited" is a sequence of characters; the last one is
\* "P, R ,  T," (the shape of "Paris, Rome ,  Tokyo,").
OptionalInputs ==
    { [client_age |-> 0, number_of_trips |-> 0, days_to_birthday |-> 0,
       places_visited |-> <<>>, client_since |-> 0],
      [client_age |-> 5, number_of_trips |-> 0, days_to_birthday |-> 0,
       places_visited |-> <<",">>, client_since |-> 0],
      [client_age |-> 5, number_of_trips |-> 0, days_to_birthday |-> 0,
       places_visited |-> <<" ", ",", " ">>, client_since |-> 0],
      [client_age |-> 34, number_of_trips |-> 2, days_to_birthday |-> 17,
       places_visited |-> <<"P", ",", " ", "R", " ", ",", " ", " ", "T", ",">>,
       client_since |-> 1] }

-----------------------------------------------------------------------------
(* str / date helpers of the standard library, as the handlers use them *)

Pad(n, width) ==
    LET s == ToString(n)
        Zeros[k \in 0..width] == IF k = 0 THEN "" ELSE "0" \o Zeros[k - 1]
    IN  IF Len(s) >= width THEN s ELSE Zeros[width - Len(s)] \o s

\* date.strftime('%Y-%m-%d')
strftime(d) == Pad(d.year, 4) \o "-" \o Pad(d.month, 2) \o "-" \o Pad(d.day, 2)

Whitespace == {" "}

RECURSIVE lstrip(_)
lstrip(s) == IF s # <<>> /\ Head(s) \in Whitespace THEN lstrip(Tail(s)) ELSE s

RECURSIVE rstrip(_)
rstrip(s) ==
    IF s # <<>> /\ s[Len(s)] \in Whitespace THEN rstrip(SubSeq(s, 1, Len(s) - 1)) ELSE s

\* str.strip()
strip(s) == rstrip(lstrip(s))

\* str.split(","): always at least one piece; "" splits into [""].
RECURSIVE split(_)
split(s) ==
    IF \A i \in 1..Len(s) : s[i] # ","
    THEN <<s>>
    ELSE LET i == CHOOSE k \in 1..Len(s) :
                      s[k] = "," /\ \A j \in 1..(k - 1) : s[j] # ","
         IN  <<SubSeq(s, 1, i - 1)>> \o split(SubSeq(s, i + 1, Len(s)))

\* dict.get(key, default)
get(d, key, default) == IF key \in DOMAIN d THEN d[key] ELSE default

\* d.update(e) / d[k] = v: the entries of e win.
update(d, e) == e @@ d

EmptyDict == <<>>

-----------------------------------------------------------------------------
(* Payload of Generate Content (lines 115-145) *)

\* [place.strip() for place in places_visited.split(",") if place.strip()]
PlacesList(text) ==
    LET pieces == split(text)
        kept   == SelectSeq(pieces, LAMBDA p : strip(p) # <<>>)
    IN  [i \in 1..Len(kept) |-> strip(kept[i])]

RequiredPayload(endpoint, p, dest, start, end) ==
    IF endpoint = FreeFormat
    THEN update(update(update("prompt" :> p,
             IF Truthy(dest) THEN "destination_name" :> dest ELSE EmptyDict),
             "trip_start_date" :> strftime(start)),
             "trip_end_date" :> strftime(end))
    ELSE "destination_name" :> dest @@
         "trip_start_date" :> strftime(start) @@
         "trip_end_date" :> strftime(end)

\* if MODELS[selected_model]: data["model_id"] = MODELS[selected_model]
AddModelId(data, model) ==
    IF Truthy(MODELS[model]) THEN update(data, "model_id" :> MODELS[model]) ELSE data

AddOptional(data, opt) ==
    LET d1 == IF opt.client_age > 0
              THEN update(data, "client_age" :> opt.client_age) ELSE data
        d2 == IF opt.number_of_trips > 0
              THEN update(d1, "number_of_trips" :> opt.number_of_trips) ELSE d1
        d3 == IF opt.days_to_birthday > 0
              THEN update(d2, "days_to_birthday" :> opt.days_to_birthday) ELSE d2
        d4 == IF opt.places_visited # <<>>
              THEN update(d3, "places_visited" :> PlacesList(opt.places_visited)) ELSE d3
        d5 == IF opt.client_since > 0
              THEN update(d4, "client_since" :> opt.client_since) ELSE d4
    IN  d5

BuildPayload(endpoint, model, p, dest, start, end, opt) ==
    AddOptional(AddModelId(RequiredPayload(endpoint, p, dest, start, end), model), opt)

\* The if / elif chain of the Generate button: the st.error message, "" when none.
GenerateError(key, endpoint, p, dest) ==
    IF ~Truthy(key) THEN "Please enter your API key."
    ELSE IF endpoint = FreeFormat /\ ~Truthy(p) THEN "Please enter a prompt."
    ELSE IF endpoint # FreeFormat /\ ~Truthy(dest) THEN "Please enter a destination name."
    ELSE ""

-----------------------------------------------------------------------------
(* What the gateway can answer to one requests.post *)

FormatErrorMessage == "Unexpected response format from API. Expected JSON."

\* Decoded JSON objects the service can send back.
Bodies ==
    { [result |-> "Enjoy Paris!"],
      [result |-> "Paris: a gem."],
      [request_id |-> "r-1"],
      [error |-> "quota exceeded"] }

ContentTypes == {"application/json", "application/json; charset=utf-8", "text/html", None}

Http(sent, status, ctype, body) ==
    [delivered |-> sent, status |-> status, content_type |-> ctype, body |-> body]

\* The answers to one POST.  A body sent as application/json is a JSON object.
HttpOutcomes ==
    \* DNS failure, timeout, connection refused: requests.post raises
    { Http(FALSE, 0, None, [request_id |-> "r-1"]) }
    \* a status raise_for_status rejects
    \cup { Http(TRUE, 500, "application/json", [message |-> "Internal server error"]) }
    \* a final 3xx answer
    \cup { Http(TRUE, 304, "application/json", [result |-> "Enjoy Paris!"]) }
    \* 2xx answers
    \cup { Http(TRUE, 200, "application/json", b) : b \in Bodies }
    \cup { Http(TRUE, 200, c, [result |-> "Enjoy Paris!"]) :
              c \in ContentTypes \ {"application/json"} }

Request(endpoint, data, key) ==
    [url     |-> base_url \o endpoint,
     json    |-> data,
     headers |-> [content_type |-> "application/json", x_api_key |-> key]]

\* What one call of call_api did: the requests it sent and the value it returned.
Returned(posts, value) == [posts |-> posts, ret |-> value]

\* call_api with one more attempt after a transport failure.
call_api_retry(endpoint, data, key, http) ==
    LET req == Request(endpoint, data, key) IN
    IF ~http.delivered
    THEN Returned(<<req, req>>, [error |-> "ConnectionError"])
    ELSE IF 400 <= http.status /\ http.status < 600
    THEN Returned(<<req>>, [error |-> ToString(http.status) \o " Error"])
    ELSE IF http.content_type = "application/json"
    THEN Returned(<<req>>, http.body)
    ELSE Returned(<<req>>, [error |-> FormatErrorMessage])

\* call_api, for the answer `http` of the gateway.  requests.post raises a
\* RequestException when the request is not delivered, raise_for_status raises
\* one for a 4xx or 5xx status; the except clause returns str(e).
call_api(endpoint, data, key, http) ==
    LET posts == <<Request(endpoint, data, key)>> IN
    IF ~http.delivered
    THEN Returned(posts, [error |-> "ConnectionError"])
    ELSE IF 400 <= http.status /\ http.status < 600
    THEN Returned(posts, [error |-> ToString(http.status) \o " Error"])
    ELSE IF http.content_type = "application/json"
    THEN Returned(posts, http.body)
    ELSE Returned(posts, [error |-> FormatErrorMessage])

-----------------------------------------------------------------------------
(* The two button handlers, as functions of st.session_state *)

NoContent == "No content available"

\* Generate Content with the flag set before the response is looked at.
GenerateResult_flag_first(ss, data, out) ==
    LET stored == [ss EXCEPT !.form_values = data, !.content_generated = TRUE] IN
    IF "error" \in DOMAIN out.ret THEN stored
    ELSE [stored EXCEPT !.generated_content = get(out.ret, "result", NoContent)]

\* Generate Content, from "Store current form values" to the end of the branch.
GenerateResult(ss, data, out) ==
    LET stored == [ss EXCEPT !.form_values = data] IN
    IF "error" \in DOMAIN out.ret THEN stored
    ELSE [stored EXCEPT !.content_generated = TRUE,
                        !.generated_content = get(out.ret, "result", NoContent)]

\* The feedback section rendered without its guard.
FeedbackVisible_always(ss) == TRUE

\* if st.session_state.content_generated: (the feedback section is rendered)
FeedbackVisible(ss) == ss.content_generated

\* The payload of Regenerate with Feedback.
FeedbackPayload(ss, feedback, model) ==
    AddModelId(update(ss.form_values,
                      "generated_content" :> ss.generated_content @@
                      "user_feedback" :> feedback),
               model)

\* Regenerate with Feedback that shows the new text without storing it.
RegenerateResult_not_stored(ss, out) == ss

\* Regenerate with Feedback, after call_api returned.
RegenerateResult(ss, out) ==
    IF "error" \in DOMAIN out.ret THEN ss
    ELSE [ss EXCEPT !.generated_content = get(out.ret, "result", NoContent)]

-----------------------------------------------------------------------------
(* State machine *)

\* if "error" in response: ... else: ...
Accepted(out) == "error" \notin DOMAIN out.ret

\* How a handler's call ended: st.success was shown, or st.error was.
Outcome(out) == IF Accepted(out) THEN "ok" ELSE "error"

NoRun ==
    [action |-> "none", outcome |-> "none", message |-> "", posts |-> <<>>,
     required |-> "", feedback |-> "", repeat |-> FALSE]

\* required: the text of the field Generate requires for the content type;
\* feedback: the text of the feedback area Regenerate read.
Invalid(action, required, feedback, msg) ==
    [NoRun EXCEPT !.action = action, !.outcome = "validation", !.message = msg,
                  !.required = required, !.feedback = feedback]

\* posts: the requests call_api sent in this run; repeat: the request the
\* handler handed to call_api is the very request the previous run sent.
Called(action, required, feedback, request, out) ==
    [action |-> action, outcome |-> Outcome(out), message |-> "", posts |-> out.posts,
     required |-> required, feedback |-> feedback,
     repeat |-> (run.posts = <<request>>)]

Init ==
    /\ api_key = ""
    /\ selected_model = "Claude 3.5 Sonnet v2"
    /\ selected_endpoint = "Generate Hotel Description"
    /\ session_state = [form_values |-> EmptyDict, content_generated |-> FALSE,
                        generated_content |-> None]
    /\ run = NoRun
    /\ gen_endpoint = None
    /\ last_ok = <<>>

\* A rerun in which no button is pressed leaves st.session_state alone.
Rerun == /\ run' = NoRun
         /\ UNCHANGED <<session_state, gen_endpoint, last_ok>>

SetApiKey ==
    /\ \E k \in ApiKeys \ {api_key} : api_key' = k
    /\ UNCHANGED <<selected_model, selected_endpoint>>
    /\ Rerun

SelectModel ==
    /\ \E m \in DOMAIN MODELS \ {selected_model} : selected_model' = m
    /\ UNCHANGED <<api_key, selected_endpoint>>
    /\ Rerun

SelectEndpoint ==
    /\ \E e \in DOMAIN ENDPOINTS \ {selected_endpoint} : selected_endpoint' = e
    /\ UNCHANGED <<api_key, selected_model>>
    /\ Rerun

\* The field the Generate button requires for the content type.
RequiredField(endpoint, p, dest) == IF endpoint = FreeFormat THEN p ELSE dest

\* if st.button("Generate Content"):
Generate ==
    /\ UNCHANGED widgets
    /\ \E p \in Prompts, dest \in Destinations :
       LET msg == GenerateError(api_key, selected_endpoint, p, dest)
           required == RequiredField(selected_endpoint, p, dest)
       IN
       IF msg # ""
       THEN /\ run' = Invalid("generate", required, "", msg)
            /\ UNCHANGED <<session_state, gen_endpoint, last_ok>>
       ELSE \E data \in { BuildPayload(selected_endpoint, selected_model, p, dest,
                                       start, end, opt) :
                              start \in StartDates, end \in EndDates,
                              opt \in OptionalInputs } :
            \E out \in { call_api(ENDPOINTS[selected_endpoint], data, api_key, http) :
                                  http \in HttpOutcomes } :
                  /\ session_state' = GenerateResult(session_state, data, out)
                  /\ run' = Called("generate", required, "",
                                 Request(ENDPOINTS[selected_endpoint], data, api_key), out)
                  /\ gen_endpoint' = IF Accepted(out) THEN ENDPOINTS[selected_endpoint]
                                     ELSE gen_endpoint
                  /\ last_ok' = IF Accepted(out) THEN <<out.ret>> ELSE last_ok

\* if st.button("Regenerate with Feedback"): inside the feedback section
Regenerate ==
    /\ FeedbackVisible(session_state)
    /\ UNCHANGED widgets
    /\ \E feedback \in Feedbacks :
       IF ~Truthy(feedback)
       THEN /\ run' = Invalid("regenerate", "", feedback,
                               "Please provide feedback before regenerating.")
            /\ UNCHANGED <<session_state, gen_endpoint, last_ok>>
       ELSE LET data == FeedbackPayload(session_state, feedback, selected_model) IN
            \E out \in { call_api(ENDPOINTS[selected_endpoint], data, api_key, http) :
                                  http \in HttpOutcomes } :
                  /\ session_state' = RegenerateResult(session_state, out)
                  /\ run' = Called("regenerate", "", feedback,
                                 Request(ENDPOINTS[selected_endpoint], data, api_key), out)
                  /\ last_ok' = IF Accepted(out) THEN <<out.ret>> ELSE last_ok
                  /\ UNCHANGED gen_endpoint

Next ==
    \/ SetApiKey
    \/ SelectModel
    \/ SelectEndpoint
    \/ Generate
    \/ Regenerate

Spec == Init /\ [][Next]_vars

-----------------------------------------------------------------------------
(* call_api on its own: the widgets hold any value, one call is made *)

InitApi ==
    /\ api_key \in ApiKeys
    /\ selected_model \in DOMAIN MODELS
    /\ selected_endpoint \in DOMAIN ENDPOINTS
    /\ session_state = [form_values |-> EmptyDict, content_generated |-> FALSE,
                        generated_content |-> None]
    /\ run = NoRun
    /\ gen_endpoint = None
    /\ last_ok = <<>>

CallApi ==
    /\ \E data \in { BuildPayload(selected_endpoint, selected_model, "Write a haiku",
                                  "Paris", start, end, opt) :
                        start \in StartDates, end \in EndDates, opt \in OptionalInputs },
          http \in HttpOutcomes :
          run' = [action |-> "call_api", http |-> http,
                  out |-> call_api(ENDPOINTS[selected_endpoint], data, api_key, http)]
    /\ UNCHANGED <<widgets, session_state, gen_endpoint, last_ok>>

SpecApi == InitApi /\ [][CallApi]_vars

-----------------------------------------------------------------------------
(* Properties *)

Buttons == {"generate", "regenerate"}

\* C1: every Regenerate-with-Feedback POST goes to the endpoint path that was
\* selected in the Generate that produced the stored content, whatever the
\* content-type selector holds by then.
C1_RegenerateSameEndpoint ==
    (run.action = "regenerate" /\ run.posts # <<>>)
        => run.posts[1].url = base_url \o gen_endpoint

\* C2: a Generate or Regenerate that ends in an error (validation,
\* transport/API or format error) leaves st.session_state exactly as it was.
C2_ErrorLeavesSessionState ==
    [][ (run'.action \in Buttons /\ run'.outcome \in {"validation", "error"})
            => session_state' = session_state ]_vars

\* C3: an action with a validation error (empty API key, empty required
\* field of the content type, empty feedback text) sends no POST.
C3_ValidationErrorSendsNothing ==
    ( /\ run.action \in Buttons
      /\ \/ api_key = ""
         \/ run.action = "generate" /\ run.required = ""
         \/ run.action = "regenerate" /\ run.feedback = "" )
        => run.posts = <<>>

\* C4: a payload of Generate or Regenerate carries model_id only when the
\* non-default model is the one selected at the time of the action.
C4_ModelIdOnlyForSelectedModel ==
    \A i \in 1..Len(run.posts) :
        "model_id" \in DOMAIN run.posts[i].json => MODELS[selected_model] # None

NumericFields == {"client_age", "number_of_trips", "days_to_birthday", "client_since"}

Trimmed(piece) ==
    piece # <<>> /\ Head(piece) \notin Whitespace /\ piece[Len(piece)] \notin Whitespace

\* C5: every optional field in the payload Generate builds is meaningful:
\* the four numbers are > 0 and places_visited is a non-empty sequence of
\* trimmed non-empty strings.
C5_OptionalFieldsMeaningful ==
    (run.action = "generate" /\ run.posts # <<>>) =>
        LET data == run.posts[1].json IN
        /\ \A k \in NumericFields \cap DOMAIN data : data[k] > 0
        /\ "places_visited" \in DOMAIN data =>
              /\ data.places_visited # <<>>
              /\ \A i \in 1..Len(data.places_visited) : Trimmed(data.places_visited[i])

\* C6: the flag is false at session start, goes from false to true only in a
\* successful Generate, never goes back to false, and a Regenerate request is
\* sent only from a state where the flag is true.
C6_StateMachine ==
    /\ ~session_state.content_generated
    /\ [][ /\ (~session_state.content_generated /\ session_state'.content_generated)
                => (run'.action = "generate" /\ run'.outcome = "ok")
           /\ session_state.content_generated => session_state'.content_generated
           /\ (run'.action = "regenerate" /\ run'.posts # <<>>)
                => session_state.content_generated ]_vars

C6_Witness ==
    /\ session_state.content_generated
    /\ run.action = "regenerate" /\ run.outcome = "ok"

\* The text a handler is to store for an accepted response.
TextOf(response) ==
    IF "result" \in DOMAIN response THEN response.result ELSE "No content available"

\* C7: the payload of Regenerate holds, as generated_content, the text of the
\* most recent successful Generate or Regenerate and, as user_feedback, the
\* feedback text entered for this action.
C7_FeedbackPayload ==
    [][ (run'.action = "regenerate" /\ run'.posts # <<>>) =>
            /\ last_ok # <<>>
            /\ run'.posts[1].json.generated_content = TextOf(last_ok[1])
            /\ run'.posts[1].json.user_feedback = run'.feedback ]_vars

C7_Witness ==
    /\ run.action = "regenerate" /\ run.posts # <<>>
    /\ run.posts[1].json.generated_content = "Paris: a gem."
    /\ run.posts[1].json.user_feedback = "make it shorter"
    /\ session_state.generated_content = "No content available"

\* C8: an action whose call_api returns an error changes neither the stored
\* text nor the flag (after a failed Regenerate the flag is still true), and
\* the stored text changes only on a successful response.
C8_ErrorKeepsContent ==
    [][ /\ (run'.action \in Buttons /\ run'.outcome = "error") =>
              /\ session_state'.generated_content = session_state.generated_content
              /\ session_state'.content_generated = session_state.content_generated
              /\ run'.action = "regenerate" => session_state'.content_generated
        /\ session_state'.generated_content # session_state.generated_content
              => run'.outcome = "ok" ]_vars

C8_Witness ==
    /\ run.action = "regenerate" /\ run.outcome = "error" /\ run.posts # <<>>
    /\ session_state.content_generated
    /\ session_state.generated_content = "Enjoy Paris!"

\* C9: an action that passes validation sends exactly one POST, whether the
\* call succeeds or fails; no action sends more than one; an action whose
\* request is identical to the previous one still sends its own request.
C9_OnePostPerAction ==
    /\ Len(run.posts) <= 1
    /\ ( \/ run.action = "generate" /\ api_key # "" /\ run.required # ""
         \/ run.action = "regenerate" /\ api_key # "" /\ run.feedback # "" )
          => Len(run.posts) = 1
    /\ run.repeat => Len(run.posts) = 1

C9_Witness ==
    /\ run.action = "regenerate" /\ run.outcome = "error"
    /\ run.repeat /\ Len(run.posts) = 1

JsonTypes == {"application/json", "application/json; charset=utf-8"}

\* C10: call_api never raises; it returns an {error: message} object for a
\* transport failure or a non-2xx status, the fixed format error for a 2xx
\* answer whose content type is not JSON, and the decoded JSON object as it
\* is for a 2xx answer whose content type is JSON.
C10_CallApiTotal ==
    run.action = "call_api" =>
        LET h == run.http
            ok2xx == h.delivered /\ 200 <= h.status /\ h.status < 300
        IN  /\ ~ok2xx => DOMAIN run.out.ret = {"error"}
            /\ (ok2xx /\ h.content_type \notin JsonTypes)
                  => run.out.ret = [error |-> FormatErrorMessage]
            /\ (ok2xx /\ h.content_type \in JsonTypes)
                  => run.out.ret = h.body

====
